---- MODULE Spec2Model ----
(***************************************************************************)
(* Clue annotation editor (reuzed/wordplay): the segment model, the        *)
(* selection reconciler of ClueHighlighter and the clue list of App.       *)
(*                                                                         *)
(* Strings of the program are sequences of one-character strings, so that  *)
(* slicing, whitespace stripping and upper-casing are computed.  Character *)
(* indices (start, end, data-index) are 0-based as in the source;          *)
(* positions inside a TLA+ sequence are 1-based.                           *)
(***************************************************************************)
EXTENDS Integers, Sequences, FiniteSets, TLC

VARIABLES
  clues,          \* App state `clues`: sequence of [id, text, segments]
  selectedClueId, \* App state `selectedClueId`
  currentMode,    \* ClueHighlighter state `currentMode`
  view,           \* what the last render closed the handlers over
  nextId,         \* crypto.randomUUID(): the next fresh identifier
  events,         \* events handled so far
  last,           \* the event handled last (history, read by no handler)
  probe,          \* argument and result of a getDefaultResolution call
  positions,      \* ClueHighlighter state `positions`
  effectDeps      \* the segments and text the positions effect ran with last

vars == <<clues, selectedClueId, currentMode, view, nextId, events, last, probe,
          positions, effectDeps>>

----------------------------------------------------------------------------
(* Bounds *)

\* clues of initialClues that are loaded
NumClues == 2
\* characters of each clue text that are kept
ClueLen == 4
\* events that are handled in one run
MaxEvents == 5
\* longest text that getDefaultResolution is called with on its own
MaxTextLen == 3
\* events that are handled in one run in which renders are late
MaxEarlyEvents == 4
\* events that are handled in one run in which keys are pressed
MaxKeyEvents == 3
\* events that are handled in one run of the single-file application
MaxFileEvents == 6
\* characters of the text of the single-file application that are kept
FileLen == 3
\* events that are handled in one run in which the positions effect is late
MaxLayoutEvents == 3

----------------------------------------------------------------------------
(* Characters and strings *)

\* the characters matched by /\s/ that the texts here hold: blank and tab
Whitespace == {" ", "\t"}

lowerCase ==
  <<
     "a", "b", "c", "d", "e", "f", "g", "h", "i", "j", "k", "l", "m",
     "n", "o", "p", "q", "r", "s", "t", "u", "v", "w", "x", "y", "z" >>

upperCase ==
  <<
     "A", "B", "C", "D", "E", "F", "G", "H", "I", "J", "K", "L", "M",
     "N", "O", "P", "Q", "R", "S", "T", "U", "V", "W", "X", "Y", "Z" >>

\* String.prototype.toUpperCase on one character (ASCII letters)
toUpperCaseChar(c) ==
  IF \E i \in 1..Len(lowerCase) : lowerCase[i] = c
  THEN upperCase[CHOOSE i \in 1..Len(lowerCase) : lowerCase[i] = c]
  ELSE c

toUpperCase(text) == [i \in 1..Len(text) |-> toUpperCaseChar(text[i])]

\* String.prototype.toLowerCase on one character (ASCII letters)
toLowerCaseChar(c) ==
  IF \E i \in 1..Len(upperCase) : upperCase[i] = c
  THEN lowerCase[CHOOSE i \in 1..Len(upperCase) : upperCase[i] = c]
  ELSE c

toLowerCase(text) == [i \in 1..Len(text) |-> toLowerCaseChar(text[i])]

\* /\s/ on one character
isSpace(c) == c \in Whitespace

\* text.replace(/\s/, ""): without the g flag only the first match goes
RECURSIVE replaceFirstSpace(_)
replaceFirstSpace(text) ==
  IF text = <<>> THEN <<>>
  ELSE IF isSpace(Head(text)) THEN Tail(text)
  ELSE <<Head(text)>> \o replaceFirstSpace(Tail(text))

\* text.replace(/\s/g, "")
RECURSIVE replaceSpaces(_)
replaceSpaces(text) ==
  IF text = <<>> THEN <<>>
  ELSE IF isSpace(Head(text)) THEN replaceSpaces(Tail(text))
  ELSE <<Head(text)>> \o replaceSpaces(Tail(text))

\* text.split(" "): only the blank separates words
RECURSIVE splitBlanks(_, _)
splitBlanks(text, word) ==
  IF text = <<>> THEN <<word>>
  ELSE IF Head(text) = " "
    THEN <<word>> \o splitBlanks(Tail(text), <<>>)
    ELSE splitBlanks(Tail(text), Append(word, Head(text)))

\* text.split(/\s+/): the words between maximal runs of whitespace; a text
\* that begins or ends with whitespace yields an empty first or last word,
\* and the empty text yields one empty word.
RECURSIVE splitSpaces(_, _)
splitSpaces(text, word) ==
  IF text = <<>> THEN <<word>>
  ELSE IF isSpace(Head(text))
    THEN IF Len(text) > 1 /\ isSpace(text[2])
           THEN splitSpaces(Tail(text), word)
           ELSE <<word>> \o splitSpaces(Tail(text), <<>>)
    ELSE splitSpaces(Tail(text), Append(word, Head(text)))

\* words.map((word) => word[0] || "").join("")
RECURSIVE firstLetters(_)
firstLetters(words) ==
  IF words = <<>> THEN <<>>
  ELSE (IF Head(words) = <<>> THEN <<>> ELSE <<Head(words)[1]>>)
       \o firstLetters(Tail(words))

\* text.slice(start, end) for 0 <= start
slice(text, start, end) ==
  SubSeq(text, start + 1, IF end < Len(text) THEN end ELSE Len(text))

----------------------------------------------------------------------------
(* Configuration tables (config.tsx) *)

\* getDefaultResolution with the span text as the default of the modes
\* whose resolution the user types
getDefaultResolutionEcho(behaviorKey, text) ==
  CASE behaviorKey = "fodder" -> toUpperCase(replaceSpaces(text))
    [] behaviorKey = "synonym" -> text
    [] behaviorKey = "abbreviation" ->
         toUpperCase(firstLetters(splitSpaces(text, <<>>)))
    [] behaviorKey = "wordplayIndicator" -> <<>>
    [] behaviorKey = "definition" -> text
    [] behaviorKey = "clear" -> <<>>

\* segmentBehaviors[behaviorKey].getDefaultResolution(text); a key that is
\* not in the table has no case here, as the lookup of it fails in the code.
getDefaultResolution(behaviorKey, text) ==
  CASE behaviorKey = "fodder" -> toUpperCase(replaceSpaces(text))
    [] behaviorKey = "synonym" -> <<>>
    [] behaviorKey = "abbreviation" ->
         toUpperCase(firstLetters(splitSpaces(text, <<>>)))
    [] behaviorKey = "wordplayIndicator" -> <<>>
    [] behaviorKey = "definition" -> <<>>
    [] behaviorKey = "clear" -> <<>>

\* the keys of the table segmentBehaviors
segmentBehaviorKeys ==
  {"fodder", "synonym", "abbreviation", "wordplayIndicator", "definition", "clear"}

\* segmentBehaviors[behaviorKey]: the flags of the descriptor
segmentBehaviors(behaviorKey) ==
  CASE behaviorKey = "fodder" ->
         [showResolutionInput |-> TRUE, resolutionEditable |-> FALSE,
          showWordplaySelector |-> FALSE]
    [] behaviorKey = "synonym" ->
         [showResolutionInput |-> TRUE, resolutionEditable |-> TRUE,
          showWordplaySelector |-> FALSE]
    [] behaviorKey = "abbreviation" ->
         [showResolutionInput |-> TRUE, resolutionEditable |-> TRUE,
          showWordplaySelector |-> FALSE]
    [] behaviorKey = "wordplayIndicator" ->
         [showResolutionInput |-> FALSE, resolutionEditable |-> FALSE,
          showWordplaySelector |-> TRUE]
    [] behaviorKey = "definition" ->
         [showResolutionInput |-> TRUE, resolutionEditable |-> TRUE,
          showWordplaySelector |-> FALSE]
    [] behaviorKey = "clear" ->
         [showResolutionInput |-> FALSE, resolutionEditable |-> FALSE,
          showWordplaySelector |-> FALSE]

\* modes with a behaviorKey that the table does not have
modesUnknownKey ==
  << [key |-> "-", name |-> "Clear", behaviorKey |-> "clear"],
     [key |-> "f", name |-> "Fodder", behaviorKey |-> "fodder"],
     [key |-> "w", name |-> "Wordplay Indicator",
      behaviorKey |-> "wordplay"],
     [key |-> "s", name |-> "Synonym", behaviorKey |-> "synonym"],
     [key |-> "a", name |-> "Abbreviation", behaviorKey |-> "abbreviation"],
     [key |-> "d", name |-> "Definition", behaviorKey |-> "definition"] >>

\* modes (the display styles are left out)
modes ==
  << [key |-> "-", name |-> "Clear", behaviorKey |-> "clear"],
     [key |-> "f", name |-> "Fodder", behaviorKey |-> "fodder"],
     [key |-> "w", name |-> "Wordplay Indicator",
      behaviorKey |-> "wordplayIndicator"],
     [key |-> "s", name |-> "Synonym", behaviorKey |-> "synonym"],
     [key |-> "a", name |-> "Abbreviation", behaviorKey |-> "abbreviation"],
     [key |-> "d", name |-> "Definition", behaviorKey |-> "definition"] >>

\* wordplayTypes (the symbols are left out); a name is a string of the
\* program, so a sequence of characters
wordplayTypes ==
  << [key |-> "anag",
      name |-> <<"A", "n", "a", "g", "r", "a", "m">>],
     [key |-> "rev",
      name |-> <<"R", "e", "v", "e", "r", "s", "a", "l">>],
     [key |-> "cont",
      name |-> <<"C", "o", "n", "t", "a", "i", "n", "e", "r">>],
     [key |-> "hid",
      name |-> <<"H", "i", "d", "d", "e", "n">>],
     [key |-> "del",
      name |-> <<"D", "e", "l", "e", "t", "i", "o", "n">>],
     [key |-> "first",
      name |-> <<"F", "i", "r", "s", "t", " ", "l", "e", "t", "t", "e", "r">>],
     [key |-> "last",
      name |-> <<"L", "a", "s", "t", " ", "l", "e", "t", "t", "e", "r">>],
     [key |-> "homo",
      name |-> <<"H", "o", "m", "o", "p", "h", "o", "n", "e">>],
     [key |-> "other",
      name |-> <<"O", "t", "h", "e", "r", " ", "w", "o", "r", "d", "p", "l", "a", "y">>] >>

\* the absent optional field `wordplayType?: WordplayType`
undefined == [key |-> "undefined", name |-> <<>>]

----------------------------------------------------------------------------
(* Clue data (App.tsx) *)

\* initialClues: id and text of each clue, the text cut to its first
\* ClueLen characters
initialTexts ==
  << [id |-> "1a", text |-> <<"A", " ", "l", "o", "t", " ", "t", "o">>],
     [id |-> "4a", text |-> <<"W", "i", "t", "h", "o", "u", "t", " ">>],
     [id |-> "7a", text |-> <<"G", "e", "n", "e", "r", "o", "u", "s">>],
     [id |-> "8a", text |-> <<"S", "e", "e", " ", "P", "a", "t", " ">>],
     [id |-> "1d", text |-> <<"Y", "o", "u", " ", "a", "n", "d", " ">>],
     [id |-> "2d", text |-> <<"P", "a", "t", "r", "i", "o", "t", "s">>],
     [id |-> "3d", text |-> <<"H", "i", "m", "a", "l", "a", "y", "a">>],
     [id |-> "5d", text |-> <<"P", "i", "c", "k", "e", "d", " ", "u">>],
     [id |-> "6d", text |-> <<"P", "a", "s", "s", " ", "t", "h", "e">>],
     [id |-> "9d", text |-> <<"S", "t", "u", "d", "i", "e", "s", " ">>] >>

initialClues ==
  [i \in 1..NumClues |->
     [id |-> initialTexts[i].id,
      text |-> SubSeq(initialTexts[i].text, 1, ClueLen),
      segments |-> <<>>]]

\* initialClues whole: all the clues of the puzzle
allClues ==
  [i \in 1..Len(initialTexts) |->
     [id |-> initialTexts[i].id,
      text |-> SubSeq(initialTexts[i].text, 1, ClueLen),
      segments |-> <<>>]]

\* clues.findIndex((c) => c.id === id), as a position 1..Len, 0 if none
clueIndex(cs, id) ==
  IF \E i \in 1..Len(cs) : cs[i].id = id
  THEN CHOOSE i \in 1..Len(cs) : cs[i].id = id /\ \A j \in 1..(i - 1) : cs[j].id # id
  ELSE 0

\* const selectedClue = clues.find((c) => c.id === selectedClueId)
selectedClue(cs, id) == cs[clueIndex(cs, id)]

\* updateClueSegments without the test of the id:
\* setClues(prev => prev.map(c => ({...c, segments})))
updateClueSegmentsAll(prev, clueId, segments) ==
  [i \in 1..Len(prev) |-> [prev[i] EXCEPT !.segments = segments]]

\* updateClueSegments: setClues(prev => prev.map(c => c.id === clueId ? {...c, segments} : c))
updateClueSegments(prev, clueId, segments) ==
  [i \in 1..Len(prev) |->
     IF prev[i].id = clueId THEN [prev[i] EXCEPT !.segments = segments]
     ELSE prev[i]]

----------------------------------------------------------------------------
(* Selection reconciler (ClueHighlighter.tsx) *)

\* the filter predicate with the comparisons off by one:
\* (s) => s.end <= start || s.start >= end
keepsTouching(s, start, end) == s.end <= start \/ s.start >= end

\* the filter predicate with a gap of one character asked for:
\* (s) => s.end < start - 1 || s.start > end + 1
keepsApart(s, start, end) == s.end < start - 1 \/ s.start > end + 1

\* the filter predicate (s) => s.end < start || s.start > end
keeps(s, start, end) == s.end < start \/ s.start > end

\* segments.filter((s) => s.end < start || s.start > end)
filterSegments(segments, start, end) ==
  SelectSeq(segments, LAMBDA s : keeps(s, start, end))

\* segments.findIndex((s) => s.start === start && s.end === end), as a
\* position 1..Len, 0 if none (-1 in the source)
existingIndex(segments, start, end) ==
  IF \E i \in 1..Len(segments) : segments[i].start = start /\ segments[i].end = end
  THEN CHOOSE i \in 1..Len(segments) :
         /\ segments[i].start = start /\ segments[i].end = end
         /\ \A j \in 1..(i - 1) : ~(segments[j].start = start /\ segments[j].end = end)
  ELSE 0

\* the branch of addOrUpdateSegment that a selection takes
pathOf(segments, mode, start, end) ==
  IF mode.behaviorKey = "clear" THEN "clear"
  ELSE IF existingIndex(segments, start, end) > 0 THEN "update"
  ELSE "insert"

\* a re-tag branch that recomputes the resolution only when the mode changes
retagSegmentsKeepSame(segments, mode, idx) ==
  [i \in 1..Len(segments) |->
     IF i = idx /\ segments[i].mode # mode
     THEN [segments[i] EXCEPT
             !.mode = mode,
             !.resolution = getDefaultResolution(mode.behaviorKey, segments[i].text)]
     ELSE segments[i]]

\* the re-tag branch: segments.map((s, i) => i === existingIndex ? {...s, mode, resolution} : s)
retagSegments(segments, mode, idx) ==
  [i \in 1..Len(segments) |->
     IF i = idx
     THEN [segments[i] EXCEPT
             !.mode = mode,
             !.resolution = getDefaultResolution(mode.behaviorKey, segments[i].text)]
     ELSE segments[i]]

\* the insert branch without the filter: [...segments, {...}]
insertSegmentNoFilter(segments, text, mode, start, end, id) ==
  Append(segments,
         [id |-> id, start |-> start, end |-> end,
          text |-> slice(text, start, end + 1),
          mode |-> mode,
          resolution |-> getDefaultResolution(mode.behaviorKey, slice(text, start, end + 1)),
          wordplayType |-> undefined])

\* the insert branch with text.slice(start, end), one character short
insertSegmentShortSlice(segments, text, mode, start, end, id) ==
  Append(SelectSeq(segments, LAMBDA s : s.end < start \/ s.start > end),
         [id |-> id, start |-> start, end |-> end,
          text |-> slice(text, start, end),
          mode |-> mode,
          resolution |-> getDefaultResolution(mode.behaviorKey, slice(text, start, end)),
          wordplayType |-> undefined])

\* the insert branch with the new segment spread from the first segment it
\* replaces: {...replaced, id, start, end, text, mode}
insertSegmentCarryOver(segments, text, mode, start, end, id) ==
  LET replaced == SelectSeq(segments, LAMBDA s : ~(s.end < start \/ s.start > end))
  IN Append(SelectSeq(segments, LAMBDA s : s.end < start \/ s.start > end),
       [id |-> id, start |-> start, end |-> end,
        text |-> slice(text, start, end + 1),
        mode |-> mode,
        resolution |->
          IF replaced = <<>>
          THEN getDefaultResolution(mode.behaviorKey, slice(text, start, end + 1))
          ELSE replaced[1].resolution,
        wordplayType |->
          IF replaced = <<>> THEN undefined ELSE replaced[1].wordplayType])

\* the insert branch with the position in the list as the id:
\* id: String(kept.length + 1)
insertSegmentIndexId(segments, text, mode, start, end, id) ==
  Append(SelectSeq(segments, LAMBDA s : s.end < start \/ s.start > end),
         [id |-> Len(SelectSeq(segments, LAMBDA s : s.end < start \/ s.start > end)) + 1,
          start |-> start, end |-> end,
          text |-> slice(text, start, end + 1),
          mode |-> mode,
          resolution |-> getDefaultResolution(mode.behaviorKey, slice(text, start, end + 1)),
          wordplayType |-> undefined])

\* the insert branch: [...segments.filter(...), {id, start, end, text, mode, resolution}]
insertSegment(segments, text, mode, start, end, id) ==
  Append(filterSegments(segments, start, end),
         [id |-> id, start |-> start, end |-> end,
          text |-> slice(text, start, end + 1),
          mode |-> mode,
          resolution |-> getDefaultResolution(mode.behaviorKey, slice(text, start, end + 1)),
          wordplayType |-> undefined])

\* addOrUpdateSegment without the exact-match branch
addOrUpdateSegmentNoExact(segments, text, mode, start, end, id) ==
  IF mode.behaviorKey = "clear"
  THEN SelectSeq(segments, LAMBDA s : s.end < start \/ s.start > end)
  ELSE Append(SelectSeq(segments, LAMBDA s : s.end < start \/ s.start > end),
         [id |-> id, start |-> start, end |-> end,
          text |-> slice(text, start, end + 1),
          mode |-> mode,
          resolution |-> getDefaultResolution(mode.behaviorKey, slice(text, start, end + 1)),
          wordplayType |-> undefined])

\* addOrUpdateSegment whose clear branch empties the list
addOrUpdateSegmentClearAll(segments, text, mode, start, end, id) ==
  IF mode.behaviorKey = "clear" THEN <<>>
  ELSE IF \E i \in 1..Len(segments) : segments[i].start = start /\ segments[i].end = end
    THEN [i \in 1..Len(segments) |->
            IF segments[i].start = start /\ segments[i].end = end
            THEN [segments[i] EXCEPT
                    !.mode = mode,
                    !.resolution = getDefaultResolution(mode.behaviorKey, segments[i].text)]
            ELSE segments[i]]
    ELSE Append(SelectSeq(segments, LAMBDA s : s.end < start \/ s.start > end),
           [id |-> id, start |-> start, end |-> end,
            text |-> slice(text, start, end + 1),
            mode |-> mode,
            resolution |-> getDefaultResolution(mode.behaviorKey, slice(text, start, end + 1)),
            wordplayType |-> undefined])

\* addOrUpdateSegment(start, end): the list it hands to onSegmentsChange,
\* from the props and state it closes over and the identifier it draws
addOrUpdateSegment(segments, text, mode, start, end, id) ==
  IF mode.behaviorKey = "clear" THEN filterSegments(segments, start, end)
  ELSE IF existingIndex(segments, start, end) > 0
    THEN retagSegments(segments, mode, existingIndex(segments, start, end))
    ELSE insertSegment(segments, text, mode, start, end, id)

\* updateResolution without the test of the id:
\* segments.map((s) => ({...s, resolution}))
updateResolutionAll(segments, id, resolution) ==
  [i \in 1..Len(segments) |-> [segments[i] EXCEPT !.resolution = resolution]]

\* updateResolution: segments.map((s) => s.id === id ? {...s, resolution} : s)
updateResolution(segments, id, resolution) ==
  [i \in 1..Len(segments) |->
     IF segments[i].id = id THEN [segments[i] EXCEPT !.resolution = resolution]
     ELSE segments[i]]

\* updateWordplayType: segments.map((s) => s.id === id ? {...s, wordplayType} : s)
updateWordplayType(segments, id, wordplayType) ==
  [i \in 1..Len(segments) |->
     IF segments[i].id = id THEN [segments[i] EXCEPT !.wordplayType = wordplayType]
     ELSE segments[i]]

----------------------------------------------------------------------------
(* Summary (ClueHighlighter.tsx) *)

\* the test of the filter, (s) => s.resolution || s.wordplayType: a string
\* is truthy when it is not empty, the optional field when it is set
hasSummary(s) == s.resolution # <<>> \/ s.wordplayType # undefined

\* sorted, with s put behind the elements whose start is not greater
RECURSIVE insertByStart(_, _)
insertByStart(sorted, s) ==
  IF sorted = <<>> THEN <<s>>
  ELSE IF Head(sorted).start <= s.start
    THEN <<Head(sorted)>> \o insertByStart(Tail(sorted), s)
    ELSE <<s>> \o sorted

\* the chain without its sort: the segments in the order of the list
sortByStartNot(segments) == segments

\* .sort((a, b) => a.start - b.start): ascending by start, and stable
RECURSIVE sortByStart(_)
sortByStart(segments) ==
  IF segments = <<>> THEN <<>>
  ELSE insertByStart(sortByStart(SubSeq(segments, 1, Len(segments) - 1)),
                     segments[Len(segments)])

\* segments.filter(...).sort(...): the segments that the summary lists
summarySegments(segments) == sortByStart(SelectSeq(segments, hasSummary))

\* the entry with the resolution first: s.resolution || s.wordplayType.name
summaryEntryResolutionFirst(s) ==
  IF s.resolution # <<>> THEN s.resolution ELSE s.wordplayType.name

\* the callback of .map: if (s.wordplayType) return s.wordplayType.name;
\* return s.resolution;
summaryEntry(s) ==
  IF s.wordplayType # undefined THEN s.wordplayType.name ELSE s.resolution

\* the separator " → "
separator == <<" ", "→", " ">>

\* parts.join(sep)
RECURSIVE join(_, _)
join(parts, sep) ==
  IF parts = <<>> THEN <<>>
  ELSE IF Len(parts) = 1 THEN parts[1]
  ELSE parts[1] \o sep \o join(Tail(parts), sep)

\* the entries of the summary before they are joined
summaryParts(segments) ==
  [k \in 1..Len(summarySegments(segments)) |->
     summaryEntry(summarySegments(segments)[k])]

\* const summary = segments.filter(...).sort(...).map(...).join(" → ")
summary(segments) == join(summaryParts(segments), separator)

----------------------------------------------------------------------------
(* State *)

\* the layout of the clue text: every character span is charWidth wide and
\* the text is on one line that is lineHeight high
charWidth == 2

lineHeight == 2

\* the indices that spanRefs has a span for: paddedText.split("")
spanIndices(text) == 0..Len(text)

\* the characters of a segment whose span is found: spanRefs.current.get(i + 1)
foundSpans(segment, text) ==
  {i \in segment.start..segment.end : (i + 1) \in spanIndices(text)}

\* the entry that the effect pushes for a segment: the box around its spans,
\* relative to the left and top of the container
spanPosition(segment, text) ==
  LET found == foundSpans(segment, text)
      first == CHOOSE i \in found : \A j \in found : i <= j
      final == CHOOSE i \in found : \A j \in found : i >= j
      left == charWidth * (first + 1)
      right == charWidth * (final + 2)
  IN [segmentId |-> segment.id, left |-> left, right |-> right,
      center |-> (left + right) \div 2, top |-> 0, bottom |-> lineHeight]

\* the positions effect of WordSelector: one entry for each segment that has
\* a span, in the order of the segments
RECURSIVE computePositions(_, _)
computePositions(segments, text) ==
  IF segments = <<>> THEN <<>>
  ELSE (IF foundSpans(Head(segments), text) # {}
        THEN <<spanPosition(Head(segments), text)>> ELSE <<>>)
       \o computePositions(Tail(segments), text)

\* the dependencies of the positions effect that a render has (the callback
\* onPositionsChange never changes)
Deps(render) == [segments |-> render.segments, text |-> render.text]

\* what a render of App and ClueHighlighter closes the handlers over:
\* selectedClue.id, the props text and segments, and currentMode
Snapshot(cs, id, mode) ==
  [clueId |-> id,
   text |-> selectedClue(cs, id).text,
   segments |-> selectedClue(cs, id).segments,
   currentMode |-> mode]

\* the record of an event that is not a selection
Event(op, id) ==
  [op |-> op, start |-> 0, end |-> 0, path |-> "", id |-> id, removed |-> {}]

NoEvent == Event("init", 0)

\* the record of a click on Next or Previous: from is the clue that the
\* handler found selected
NavEvent(op, from) ==
  [op |-> op, start |-> 0, end |-> 0, path |-> "", id |-> 0, removed |-> {},
   from |-> from]

NoProbe == [behaviorKey |-> "clear", text |-> <<>>, called |-> FALSE, result |-> <<>>]

Init ==
  /\ clues = initialClues
  /\ selectedClueId = initialClues[1].id
  /\ currentMode = modes[1]
  /\ view = Snapshot(initialClues, initialClues[1].id, modes[1])
  /\ nextId = 1
  /\ events = 0
  /\ last = NoEvent
  /\ probe = NoProbe
  /\ positions = <<>>
  /\ effectDeps = Deps(Snapshot(initialClues, initialClues[1].id, modes[1]))

\* an event is taken from the queue while the run has events left
Dispatched ==
  /\ events < MaxEvents
  /\ events' = events + 1

\* React commits the render that a handler's state updates schedule, and
\* subscribes the handlers of that render, before the next event is handled:
\* every handler reads the props and state of the render of the state it
\* changes (view is that render).  The positions effect of the render runs
\* with it and sets the positions.
Rendered ==
  /\ view' = Snapshot(clues', selectedClueId', currentMode')
  /\ positions' = computePositions(view'.segments, view'.text)
  /\ effectDeps' = Deps(view')
  /\ UNCHANGED probe

----------------------------------------------------------------------------
(* Handlers *)

\* onSelect without the `if (s === e) return;` guard
reachesAlways(s, e) == TRUE

\* onSelect: `if (s === e) return;` lets the selection through to
\* addOrUpdateSegment only when it is not empty
reachesReconciler(s, e) == s # e

\* onSelect passing the end offset on as it is: addOrUpdateSegment(s, e)
selectedRangeInclusive(s, e) == <<s, e>>

\* onSelect: the range of addOrUpdateSegment(s, e - 1)
selectedRange(s, e) == <<s, e - 1>>

\* the ranges of the segments of `before` whose id is not in `after`
removedRanges(before, after) ==
  {<<before[i].start, before[i].end>> : i \in
     {j \in 1..Len(before) : \A k \in 1..Len(after) : after[k].id # before[j].id}}

\* WordSelector.handleSelectionChange with the data-index values a, b of the
\* two ends (swapped into ascending order), then onSelect, then
\* addOrUpdateSegment: the state updates of the handler
onSelect(a, b) ==
  LET start == IF a > b THEN b ELSE a
      end == IF a > b THEN a ELSE b
      reaches == reachesReconciler(start, end)
      range == selectedRange(start, end)
      path == IF reaches
              THEN pathOf(view.segments, view.currentMode, range[1], range[2])
              ELSE "none"
      segments == addOrUpdateSegment(view.segments, view.text,
                    view.currentMode, range[1], range[2], nextId)
  IN /\ IF reaches
        THEN clues' = updateClueSegments(clues, view.clueId, segments)
        ELSE UNCHANGED clues
     /\ nextId' = IF path = "insert" THEN nextId + 1 ELSE nextId
     /\ last' = [op |-> "select", start |-> start, end |-> end, path |-> path,
                 id |-> IF path = "insert" THEN nextId ELSE 0,
                 removed |-> IF reaches THEN removedRanges(view.segments, segments)
                             ELSE {}]
     /\ UNCHANGED <<selectedClueId, currentMode>>

\* a selectionchange event
HandleSelectionChange(a, b) ==
  /\ Dispatched
  /\ onSelect(a, b)
  /\ Rendered

\* the resolution strings a user types
ResolutionInputs == {<<>>, <<"X">>}

\* the wordplay types a user picks
WordplayInputs == {wordplayTypes[1], wordplayTypes[2]}

\* ResolutionRow with an editable input under every mode
canEditResolutionAnyMode(s) == TRUE

\* ResolutionRow without readOnly: every input that is rendered fires onChange
canEditResolutionShown(s) == segmentBehaviors(s.mode.behaviorKey).showResolutionInput

\* ResolutionRow: the input of segment s is rendered and not readOnly, so
\* that it fires onChange (a position for the segment is taken as measured)
canEditResolution(s) ==
  /\ segmentBehaviors(s.mode.behaviorKey).showResolutionInput
  /\ segmentBehaviors(s.mode.behaviorKey).resolutionEditable

\* ResolutionRow: the WordplaySelector of segment s is rendered
canPickWordplay(s) == segmentBehaviors(s.mode.behaviorKey).showWordplaySelector

\* onResolutionChange(segment.id, e.target.value) of the input of the i-th
\* segment of the render
onResolutionChange(i, resolution) ==
  /\ i \in 1..Len(view.segments)
  /\ canEditResolution(view.segments[i])
  /\ clues' = updateClueSegments(clues, view.clueId,
                updateResolution(view.segments, view.segments[i].id, resolution))
  /\ last' = Event("resolution", view.segments[i].id)
  /\ UNCHANGED <<selectedClueId, currentMode, nextId>>

\* an input event of a resolution input
UpdateResolution(i, resolution) ==
  /\ Dispatched
  /\ onResolutionChange(i, resolution)
  /\ Rendered

\* onWordplayTypeChange(segment.id, type) of the selector of the i-th segment
\* of the render; the Clear entry (undefined) is rendered only when a type
\* is set
onWordplayTypeChange(i, type) ==
  /\ i \in 1..Len(view.segments)
  /\ canPickWordplay(view.segments[i])
  /\ type = undefined => view.segments[i].wordplayType # undefined
  /\ clues' = updateClueSegments(clues, view.clueId,
                updateWordplayType(view.segments, view.segments[i].id, type))
  /\ last' = Event("wordplay", view.segments[i].id)
  /\ UNCHANGED <<selectedClueId, currentMode, nextId>>

\* a click on an entry of a wordplay selector
UpdateWordplayType(i, type) ==
  /\ Dispatched
  /\ onWordplayTypeChange(i, type)
  /\ Rendered

\* a mode change that also re-tags the segments of the rendered clue
onModeChangeRetag(mode) ==
  /\ currentMode' = mode
  /\ clues' = updateClueSegments(clues, view.clueId,
                [i \in 1..Len(view.segments) |->
                   retagSegments(view.segments, mode, i)[i]])
  /\ last' = Event("mode", 0)
  /\ UNCHANGED <<selectedClueId, nextId>>

\* ModeSelector onModeChange={setCurrentMode}, and the keyboard shortcut
onModeChange(mode) ==
  /\ currentMode' = mode
  /\ last' = Event("mode", 0)
  /\ UNCHANGED <<clues, selectedClueId, nextId>>

\* a mode selector that changes the mode only from or to Clear
SetCurrentModeViaClear(mode) ==
  /\ Dispatched
  /\ currentMode = modes[1] \/ mode = modes[1]
  /\ onModeChange(mode)
  /\ Rendered

\* a click on a mode button, or a key of a mode
SetCurrentMode(mode) ==
  /\ Dispatched
  /\ onModeChange(mode)
  /\ Rendered

\* a clue selection that mounts a new highlighter: the mode starts over
setSelectedClueIdRemounts(id) ==
  /\ selectedClueId' = id
  /\ currentMode' = modes[1]
  /\ last' = Event("clue", 0)
  /\ UNCHANGED <<clues, nextId>>

\* ClueList onSelect={setSelectedClueId}
setSelectedClueId(id) ==
  /\ selectedClueId' = id
  /\ last' = Event("clue", 0)
  /\ UNCHANGED <<clues, currentMode, nextId>>

\* a click on a clue of the list
SelectClue(id) ==
  /\ Dispatched
  /\ setSelectedClueId(id)
  /\ Rendered

\* selectNextClue
selectNextClue ==
  LET currentIndex == clueIndex(clues, view.clueId) - 1
      nextIndex == (currentIndex + 1) % Len(clues)
  IN /\ selectedClueId' = clues[nextIndex + 1].id
     /\ last' = NavEvent("next", view.clueId)
     /\ UNCHANGED <<clues, currentMode, nextId>>

\* a click on the Next button
SelectNextClue ==
  /\ Dispatched
  /\ selectNextClue
  /\ Rendered

\* selectPrevClue that stops at the first clue
selectPrevClueClamped ==
  LET currentIndex == clueIndex(clues, view.clueId) - 1
      prevIndex == IF currentIndex = 0 THEN 0 ELSE currentIndex - 1
  IN /\ selectedClueId' = clues[prevIndex + 1].id
     /\ last' = NavEvent("prev", view.clueId)
     /\ UNCHANGED <<clues, currentMode, nextId>>

\* selectPrevClue
selectPrevClue ==
  LET currentIndex == clueIndex(clues, view.clueId) - 1
      prevIndex == (currentIndex - 1 + Len(clues)) % Len(clues)
  IN /\ selectedClueId' = clues[prevIndex + 1].id
     /\ last' = NavEvent("prev", view.clueId)
     /\ UNCHANGED <<clues, currentMode, nextId>>

\* a click on the Previous button
SelectPrevClue ==
  /\ Dispatched
  /\ selectPrevClue
  /\ Rendered

\* one event: its handler runs to completion
Next ==
  \/ \E a, b \in 0..Len(view.text) : HandleSelectionChange(a, b)
  \/ \E i \in 1..Len(view.segments), r \in ResolutionInputs :
       UpdateResolution(i, r)
  \/ \E i \in 1..Len(view.segments), t \in WordplayInputs \cup {undefined} :
       UpdateWordplayType(i, t)
  \/ \E i \in 1..Len(modes) : SetCurrentMode(modes[i])
  \/ \E i \in 1..Len(clues) : SelectClue(clues[i].id)
  \/ SelectNextClue
  \/ SelectPrevClue

Spec == Init /\ [][Next]_vars

----------------------------------------------------------------------------
(* The clue list with every clue loaded: navigation and mode changes *)

InitNav ==
  /\ clues = allClues
  /\ selectedClueId = allClues[1].id
  /\ currentMode = modes[1]
  /\ view = Snapshot(allClues, allClues[1].id, modes[1])
  /\ nextId = 1
  /\ events = 0
  /\ last = NoEvent
  /\ probe = NoProbe
  /\ positions = <<>>
  /\ effectDeps = Deps(Snapshot(allClues, allClues[1].id, modes[1]))

NextNav ==
  \/ \E i \in 1..Len(modes) : SetCurrentMode(modes[i])
  \/ \E i \in 1..Len(clues) : SelectClue(clues[i].id)
  \/ SelectNextClue
  \/ SelectPrevClue

SpecNav == InitNav /\ [][NextNav]_vars

----------------------------------------------------------------------------
(* Keyboard shortcuts (ClueHighlighter.tsx, handleKeyDown) *)

\* document.activeElement: its tagName, whether containerRef.current
\* contains it, whether it is document.body
Element(tagName, inContainer, isBody) ==
  [tagName |-> tagName, inContainer |-> inContainer, isBody |-> isBody]

\* document.body
body == Element("BODY", FALSE, TRUE)
\* a button of ModeSelector or of a WordplaySelector
containerButton == Element("BUTTON", TRUE, FALSE)
\* the input of a ResolutionRow entry
resolutionInput == Element("INPUT", TRUE, FALSE)
\* a clue of ClueList, the Previous or the Next button of App
appButton == Element("BUTTON", FALSE, FALSE)
\* a text area of the page around the application
pageTextarea == Element("TEXTAREA", FALSE, FALSE)
\* document.activeElement is null
noElement == Element("", FALSE, FALSE)

\* the elements that can have the focus in the render the user sees: an
\* input exists for each segment whose mode shows the resolution input
Focusable ==
  {body, containerButton, appButton, pageTextarea, noElement}
    \cup (IF \E i \in 1..Len(view.segments) :
               segmentBehaviors(view.segments[i].mode.behaviorKey).showResolutionInput
           THEN {resolutionInput} ELSE {})

\* KeyboardEvent.key values that are pressed
Keys == { <<"s">>, <<"F">>, <<"x">>, <<"S", "h", "i", "f", "t">> }

\* the record of a key press
KeyEvent(focus, key) ==
  [op |-> "key", start |-> 0, end |-> 0, path |-> "", id |-> 0, removed |-> {},
   focus |-> focus, key |-> key]

\* modes.find((m) => m.key === key): the positions that match, lowest first
modesWithKey(key) == {i \in 1..Len(modes) : <<modes[i].key>> = key}

\* handleKeyDown without the test for INPUT and TEXTAREA
handleKeyDownInInputs(focus, key) ==
  LET ignored == ~focus.inContainer /\ ~focus.isBody
      found == modesWithKey(toLowerCase(key))
  IN /\ currentMode' =
          IF ~ignored /\ found # {}
          THEN modes[CHOOSE i \in found : \A j \in found : i <= j]
          ELSE currentMode
     /\ last' = KeyEvent(focus, key)
     /\ UNCHANGED <<clues, selectedClueId, nextId>>

\* handleKeyDown
handleKeyDown(focus, key) ==
  LET ignored == \/ focus.tagName = "INPUT" \/ focus.tagName = "TEXTAREA"
                 \/ (~focus.inContainer /\ ~focus.isBody)
      found == modesWithKey(toLowerCase(key))
  IN /\ currentMode' =
          IF ~ignored /\ found # {}
          THEN modes[CHOOSE i \in found : \A j \in found : i <= j]
          ELSE currentMode
     /\ last' = KeyEvent(focus, key)
     /\ UNCHANGED <<clues, selectedClueId, nextId>>

\* the run has key events left
Pressing == events < MaxKeyEvents

\* a keydown event on the document
HandleKeyDown(focus, key) ==
  /\ Pressing
  /\ Dispatched
  /\ handleKeyDown(focus, key)
  /\ Rendered

KeysSelectionChange(a, b) == Pressing /\ HandleSelectionChange(a, b)

KeysSetCurrentMode(mode) == Pressing /\ SetCurrentMode(mode)

NextKeys ==
  \/ \E a, b \in 0..Len(view.text) : KeysSelectionChange(a, b)
  \/ \E i \in 1..Len(modes) : KeysSetCurrentMode(modes[i])
  \/ \E focus \in Focusable, key \in Keys : HandleKeyDown(focus, key)

SpecKeys == Init /\ [][NextKeys]_vars

----------------------------------------------------------------------------
(* Events that are handled before React has committed the render of the     *)
(* state: the handlers are the closures of the render before (view), as     *)
(* handleSelectionChange is subscribed by an effect that runs after the     *)
(* commit, and the handlers of ResolutionRow are props of a commit          *)

\* an event is handled while the render that the state updates before it
\* scheduled is not committed: the closures stay those of view
Early ==
  /\ events < MaxEarlyEvents
  /\ events' = events + 1
  /\ UNCHANGED <<view, probe, positions, effectDeps>>

EarlySelectionChange(a, b) == Early /\ onSelect(a, b)

EarlyResolution(i, resolution) == Early /\ onResolutionChange(i, resolution)

EarlyWordplayType(i, type) == Early /\ onWordplayTypeChange(i, type)

EarlyMode(mode) == Early /\ onModeChange(mode)

EarlyClue(id) == Early /\ setSelectedClueId(id)

EarlyNextClue == Early /\ selectNextClue

EarlyPrevClue == Early /\ selectPrevClue

\* React commits the render of the current state and the effects subscribe
\* its handlers and set the positions
Render ==
  /\ view # Snapshot(clues, selectedClueId, currentMode)
  /\ view' = Snapshot(clues, selectedClueId, currentMode)
  /\ positions' = computePositions(view'.segments, view'.text)
  /\ effectDeps' = Deps(view')
  /\ UNCHANGED <<clues, selectedClueId, currentMode, nextId, events, last, probe>>

NextDeferred ==
  \/ \E a, b \in 0..Len(view.text) : EarlySelectionChange(a, b)
  \/ \E i \in 1..Len(view.segments), r \in ResolutionInputs :
       EarlyResolution(i, r)
  \/ \E i \in 1..Len(view.segments), t \in WordplayInputs \cup {undefined} :
       EarlyWordplayType(i, t)
  \/ \E i \in 1..Len(modes) : EarlyMode(modes[i])
  \/ \E i \in 1..Len(clues) : EarlyClue(clues[i].id)
  \/ EarlyNextClue
  \/ EarlyPrevClue
  \/ Render

SpecDeferred == Init /\ [][NextDeferred]_vars

----------------------------------------------------------------------------
(* The single-file application (unnamed/part_000): one clue, the segments *)
(* are state of App and every write to them is a functional update        *)

\* const text = clues[5]; useState<Segment[]>([])
fileClues ==
  << [id |-> initialTexts[6].id,
      text |-> SubSeq(initialTexts[6].text, 1, FileLen),
      segments |-> <<>>] >>

\* the state `segments` of App
fileSegments == clues[1].segments

InitFile ==
  /\ clues = fileClues
  /\ selectedClueId = fileClues[1].id
  /\ currentMode = modes[1]
  /\ view = Snapshot(fileClues, fileClues[1].id, modes[1])
  /\ nextId = 1
  /\ events = 0
  /\ last = NoEvent
  /\ probe = NoProbe
  /\ positions = <<>>
  /\ effectDeps = Deps(Snapshot(fileClues, fileClues[1].id, modes[1]))

\* addOrUpdateSegment of part_000: segments, text and mode are those of the
\* render the handler was made in, prev is the list the update is applied to
fileAddOrUpdateSegment(prev, segments, text, mode, start, end, id) ==
  IF mode.behaviorKey = "clear"
  THEN filterSegments(prev, start, end)
  ELSE IF existingIndex(segments, start, end) > 0
    THEN retagSegments(prev, mode, existingIndex(segments, start, end))
    ELSE insertSegment(prev, text, mode, start, end, id)

\* an event is handled on the handlers of the last render
EarlyFile ==
  /\ events < MaxFileEvents
  /\ events' = events + 1
  /\ UNCHANGED <<view, probe, positions, effectDeps>>

\* handleSelectionChange, onSelect and addOrUpdateSegment of part_000
FileSelectionChange(a, b) ==
  LET start == IF a > b THEN b ELSE a
      end == IF a > b THEN a ELSE b
      reaches == reachesReconciler(start, end)
      range == selectedRange(start, end)
      path == IF reaches
              THEN pathOf(view.segments, view.currentMode, range[1], range[2])
              ELSE "none"
      segments == fileAddOrUpdateSegment(fileSegments, view.segments, view.text,
                    view.currentMode, range[1], range[2], nextId)
  IN /\ EarlyFile
     /\ IF reaches
        THEN clues' = updateClueSegments(clues, view.clueId, segments)
        ELSE UNCHANGED clues
     /\ nextId' = IF path = "insert" THEN nextId + 1 ELSE nextId
     /\ last' = [op |-> "select", start |-> start, end |-> end, path |-> path,
                 id |-> IF path = "insert" THEN nextId ELSE 0,
                 removed |-> IF reaches THEN removedRanges(fileSegments, segments)
                             ELSE {}]
     /\ UNCHANGED <<selectedClueId, currentMode>>

\* updateResolution of part_000, from the input of the i-th rendered segment
FileResolution(i, resolution) ==
  /\ EarlyFile
  /\ i \in 1..Len(view.segments)
  /\ canEditResolution(view.segments[i])
  /\ clues' = updateClueSegments(clues, view.clueId,
                updateResolution(fileSegments, view.segments[i].id, resolution))
  /\ last' = Event("resolution", view.segments[i].id)
  /\ UNCHANGED <<selectedClueId, currentMode, nextId>>

\* updateWordplayType of part_000, from the selector of the i-th rendered
\* segment
FileWordplayType(i, type) ==
  /\ EarlyFile
  /\ i \in 1..Len(view.segments)
  /\ canPickWordplay(view.segments[i])
  /\ type = undefined => view.segments[i].wordplayType # undefined
  /\ clues' = updateClueSegments(clues, view.clueId,
                updateWordplayType(fileSegments, view.segments[i].id, type))
  /\ last' = Event("wordplay", view.segments[i].id)
  /\ UNCHANGED <<selectedClueId, currentMode, nextId>>

\* setCurrentMode of part_000
FileMode(mode) == EarlyFile /\ onModeChange(mode)

NextFile ==
  \/ \E a, b \in 0..Len(view.text) : FileSelectionChange(a, b)
  \/ \E i \in 1..Len(view.segments), r \in ResolutionInputs :
       FileResolution(i, r)
  \/ \E i \in 1..Len(view.segments), t \in WordplayInputs \cup {undefined} :
       FileWordplayType(i, t)
  \/ \E i \in 1..Len(modes) : FileMode(modes[i])
  \/ Render

SpecSingleFile == InitFile /\ [][NextFile]_vars

----------------------------------------------------------------------------
(* The position cache (ClueHighlighter.tsx, WordSelector and ResolutionRow): *)
(* the commit of a render and its positions effect are steps of their own   *)

\* the run has events left
Laying == events < MaxLayoutEvents

\* positions.find((p) => p.segmentId === segment.id) finds an entry: the
\* input and the selector of the segment are rendered
hasPosition(segment) ==
  \E k \in 1..Len(positions) : positions[k].segmentId = segment.id

LayoutSelectionChange(a, b) == Laying /\ EarlySelectionChange(a, b)

LayoutResolution(i, resolution) ==
  /\ Laying
  /\ hasPosition(view.segments[i])
  /\ EarlyResolution(i, resolution)

LayoutWordplayType(i, type) ==
  /\ Laying
  /\ hasPosition(view.segments[i])
  /\ EarlyWordplayType(i, type)

LayoutMode(mode) == Laying /\ EarlyMode(mode)

LayoutClue(id) == Laying /\ EarlyClue(id)

LayoutNextClue == Laying /\ EarlyNextClue

LayoutPrevClue == Laying /\ EarlyPrevClue

\* React commits the render of the current state; it runs the effects of
\* the commit before, which are still to run, before it renders again
Commit ==
  /\ view # Snapshot(clues, selectedClueId, currentMode)
  /\ effectDeps = Deps(view)
  /\ view' = Snapshot(clues, selectedClueId, currentMode)
  /\ UNCHANGED <<clues, selectedClueId, currentMode, nextId, events, last, probe,
                 positions, effectDeps>>

\* a positions effect with the dependencies [text, onPositionsChange]
PositionsEffectTextOnly ==
  /\ effectDeps.text # view.text
  /\ positions' = computePositions(view.segments, view.text)
  /\ effectDeps' = Deps(view)
  /\ UNCHANGED <<clues, selectedClueId, currentMode, view, nextId, events, last,
                 probe>>

\* the positions effect of WordSelector, dependencies [segments, text,
\* onPositionsChange], and handlePositionsChange: setPositions(positions).
\* The dependencies are compared by value: an update that makes an equal
\* list runs the effect in the code too, and leaves equal positions.
PositionsEffect ==
  /\ effectDeps # Deps(view)
  /\ positions' = computePositions(view.segments, view.text)
  /\ effectDeps' = Deps(view)
  /\ UNCHANGED <<clues, selectedClueId, currentMode, view, nextId, events, last,
                 probe>>

NextLayout ==
  \/ \E a, b \in 0..Len(view.text) : LayoutSelectionChange(a, b)
  \/ \E i \in 1..Len(view.segments), r \in ResolutionInputs :
       LayoutResolution(i, r)
  \/ \E i \in 1..Len(view.segments), t \in WordplayInputs \cup {undefined} :
       LayoutWordplayType(i, t)
  \/ \E i \in 1..Len(modes) : LayoutMode(modes[i])
  \/ \E i \in 1..Len(clues) : LayoutClue(clues[i].id)
  \/ LayoutNextClue
  \/ LayoutPrevClue
  \/ Commit
  \/ PositionsEffect

\* React commits every render it has scheduled and runs every effect of a
\* commit
SpecLayout ==
  /\ Init
  /\ [][NextLayout]_vars
  /\ WF_vars(Commit)
  /\ WF_vars(PositionsEffect)

----------------------------------------------------------------------------
(* getDefaultResolution on its own: every text over Alphabet up to          *)
(* MaxTextLen characters, under every behaviour key                         *)

Alphabet == {"a", "T", " ", "\t"}

Texts == UNION {[1..n -> Alphabet] : n \in 0..MaxTextLen}

behaviorKeys == {modes[i].behaviorKey : i \in 1..Len(modes)}

InitDefault ==
  /\ clues = initialClues
  /\ selectedClueId = initialClues[1].id
  /\ currentMode = modes[1]
  /\ view = Snapshot(initialClues, initialClues[1].id, modes[1])
  /\ nextId = 1
  /\ events = 0
  /\ last = NoEvent
  /\ probe \in [behaviorKey : behaviorKeys, text : Texts,
                called : {FALSE}, result : {<<>>}]
  /\ positions = <<>>
  /\ effectDeps = Deps(Snapshot(initialClues, initialClues[1].id, modes[1]))

\* behavior.getDefaultResolution(text)
CallDefault ==
  /\ ~probe.called
  /\ probe' = [probe EXCEPT
                 !.called = TRUE,
                 !.result = getDefaultResolution(probe.behaviorKey, probe.text)]
  /\ UNCHANGED <<clues, selectedClueId, currentMode, view, nextId, events, last,
                 positions, effectDeps>>

NextDefault == CallDefault

SpecDefault == InitDefault /\ [][NextDefault]_vars

----------------------------------------------------------------------------
(* Properties *)

\* two inclusive ranges overlap
Overlap(a, b) == a.start <= b.end /\ b.start <= a.end

\* the members of a list
Members(seq) == {seq[i] : i \in 1..Len(seq)}

\* the segment list of the selected clue
shown == selectedClue(clues, selectedClueId).segments

\* the event handled last was a selection that reached the reconciler
Reconciled == last.op = "select" /\ last.start # last.end

\* the range of the selection handled last
selection == [start |-> last.start, end |-> last.end - 1]

\* segment s has exactly the range r
Matches(s, r) == s.start = r.start /\ s.end = r.end

\* segment s has exactly the range of the selection handled last
Exact(s) == Matches(s, selection)

\* C1: no two segments of one clue have overlapping inclusive ranges, after
\* any sequence of selections, edits, mode changes and clue navigations.
NoOverlappingSegments ==
  \A c \in 1..Len(clues) :
    \A i, j \in 1..Len(clues[c].segments) :
      i # j => ~Overlap(clues[c].segments[i], clues[c].segments[j])

\* an insertion that removed an overlapped segment and left another beside it
NoOverlappingSegmentsWitness ==
  /\ Reconciled /\ last.path = "insert"
  /\ last.removed # {}
  /\ Len(shown) >= 2

\* C2: a selection under a non-erase mode whose range is exactly that of an
\* existing segment leaves the list as long as it was, sets that segment's
\* mode to the active mode and its resolution to the mode's default for its
\* stored text, keeps its id, start, end, text and wordplayType, and leaves
\* every other segment as it was.
ExactReselectionRetags ==
  [][ ( /\ Reconciled'
        /\ currentMode.behaviorKey # "clear"
        /\ \E s \in Members(shown) : Matches(s, selection') )
      => /\ Len(shown') = Len(shown)
         /\ \A i \in 1..Len(shown) :
              IF Matches(shown[i], selection')
              THEN /\ shown'[i].id = shown[i].id
                   /\ shown'[i].start = shown[i].start
                   /\ shown'[i].end = shown[i].end
                   /\ shown'[i].text = shown[i].text
                   /\ shown'[i].wordplayType = shown[i].wordplayType
                   /\ shown'[i].mode = currentMode
                   /\ shown'[i].resolution =
                        getDefaultResolution(currentMode.behaviorKey, shown[i].text)
              ELSE shown'[i] = shown[i] ]_vars

\* a classified wordplay-indicator segment re-tagged to another mode
ExactReselectionWitness ==
  /\ Reconciled /\ last.path = "update"
  /\ \E s \in Members(shown) :
       /\ Exact(s)
       /\ s.wordplayType # undefined
       /\ s.mode = currentMode
       /\ s.mode.behaviorKey # "wordplayIndicator"

\* C3: a selection under a non-erase mode whose range no existing segment
\* has removes every segment that overlaps it, keeps every other segment
\* unchanged, and appends exactly one new segment with the selected range and
\* the active mode.
NewSelectionReplacesOverlapped ==
  [][ ( /\ Reconciled'
        /\ currentMode.behaviorKey # "clear"
        /\ ~ \E s \in Members(shown) : Matches(s, selection') )
      => LET kept == {i \in 1..Len(shown) : ~Overlap(shown[i], selection')}
             n == Len(shown')
         IN /\ n = Cardinality(kept) + 1
            /\ Matches(shown'[n], selection')
            /\ shown'[n].mode = currentMode
            /\ shown'[n] \notin Members(shown)
            /\ \A j \in 1..(n - 1) :
                 /\ shown'[j] \in Members(shown)
                 /\ ~Overlap(shown'[j], selection')
            /\ \A i \in kept : \E j \in 1..(n - 1) : shown'[j] = shown[i] ]_vars

\* the selection 1..2 replaced the two segments 0..1 and 2..3 that it
\* overlapped in part
NewSelectionWitness ==
  /\ Reconciled /\ last.path = "insert"
  /\ selection = [start |-> 1, end |-> 2]
  /\ last.removed = {<<0, 1>>, <<2, 3>>}
  /\ Len(shown) = 1

\* C4: a selection under the erase mode removes every segment that overlaps
\* it, keeps every other segment unchanged and adds none: the result is a
\* part of the list before.
EraseRemovesOverlapped ==
  [][ ( /\ Reconciled'
        /\ currentMode.behaviorKey = "clear" )
      => LET kept == {i \in 1..Len(shown) : ~Overlap(shown[i], selection')}
         IN /\ Len(shown') = Cardinality(kept)
            /\ \A j \in 1..Len(shown') :
                 /\ shown'[j] \in Members(shown)
                 /\ ~Overlap(shown'[j], selection')
            /\ \A i \in kept : shown[i] \in Members(shown') ]_vars

\* an erasure that removed a segment and left another
EraseWitness ==
  /\ Reconciled /\ last.path = "clear"
  /\ last.removed # {}
  /\ shown # <<>>

\* C5: the stored text of every segment is the substring of its clue's text
\* from start to end inclusive.
TextMatchesRange ==
  \A c \in 1..Len(clues) :
    \A s \in Members(clues[c].segments) :
      s.text = [k \in 1..(s.end - s.start + 1) |-> clues[c].text[s.start + k]]

\* a segment of several characters, one of them a blank, after a re-tag
TextMatchesRangeWitness ==
  /\ Reconciled /\ last.path = "update"
  /\ \E s \in Members(shown) :
       /\ Exact(s)
       /\ s.end > s.start
       /\ \E k \in 1..Len(s.text) : s.text[k] = " "

\* C6: every segment has 0 <= start <= end < length(clueText).
RangeWithinText ==
  \A c \in 1..Len(clues) :
    \A s \in Members(clues[c].segments) :
      /\ 0 <= s.start
      /\ s.start <= s.end
      /\ s.end < Len(clues[c].text)

\* the selection from data-index 0 to data-index length(clueText) made a
\* segment of the whole text
RangeWithinTextWitness ==
  /\ Reconciled /\ last.path = "insert"
  /\ last.start = 0
  /\ last.end = Len(view.text)
  /\ \E s \in Members(shown) : s.start = 0 /\ s.end = Len(view.text) - 1

\* C7: a selection whose two offsets are equal changes no clue's segment
\* list, under every active mode.
EmptySelectionChangesNothing ==
  [][ (last'.op = "select" /\ last'.start = last'.end) => clues' = clues ]_vars

\* an empty selection inside a segment while the erase mode is active
EmptySelectionWitness ==
  /\ last.op = "select" /\ last.start = last.end
  /\ currentMode.behaviorKey = "clear"
  /\ \E s \in Members(shown) : s.start < last.start /\ last.start <= s.end

\* the upper-case form of a character of Alphabet
Capital(c) == IF c = "a" THEN "A" ELSE c

\* the positions of text up to i that hold a character of `at`
Upto(at, i) == {j \in at : j <= i}

\* C8: the fodder default resolution of a text is its characters that are
\* not whitespace, upper-cased, in their order ("A Lot" gives "ALOT").
FodderDefault ==
  /\ getDefaultResolution("fodder", <<"A", " ", "L", "o", "t">>)
       = <<"A", "L", "O", "T">>
  /\ (probe.called /\ probe.behaviorKey = "fodder")
     => LET letters == {i \in 1..Len(probe.text) : probe.text[i] \notin {" ", "\t"}}
        IN /\ Len(probe.result) = Cardinality(letters)
           /\ \A i \in letters :
                probe.result[Cardinality(Upto(letters, i))] = Capital(probe.text[i])

\* a text with a blank before and a tab after its one letter
FodderDefaultWitness ==
  /\ probe.called /\ probe.behaviorKey = "fodder"
  /\ probe.text = <<" ", "a", "\t">>
  /\ probe.result = <<"A">>

\* C9: the abbreviation default resolution of a text is the upper-cased
\* first character of each of its words, in order; empty words give
\* nothing, so the result holds no whitespace and one character per
\* non-empty word ("A Lot To Change" gives "ALTC").
AbbreviationDefault ==
  /\ getDefaultResolution("abbreviation",
       <<"A", " ", "L", "o", "t", " ", "T", "o", " ", "C", "h", "a", "n", "g", "e">>)
       = <<"A", "L", "T", "C">>
  /\ (probe.called /\ probe.behaviorKey = "abbreviation")
     => LET blank(i) == probe.text[i] \in {" ", "\t"}
            starts == {i \in 1..Len(probe.text) :
                         ~blank(i) /\ (i = 1 \/ blank(i - 1))}
        IN /\ Len(probe.result) = Cardinality(starts)
           /\ \A i \in starts :
                probe.result[Cardinality(Upto(starts, i))] = Capital(probe.text[i])
           /\ \A k \in 1..Len(probe.result) : probe.result[k] \notin {" ", "\t"}

\* a text of two words parted by a tab and a blank
AbbreviationDefaultWitness ==
  /\ probe.called /\ probe.behaviorKey = "abbreviation"
  /\ probe.text = <<"a", "\t", " ">>
  /\ probe.result = <<"A">>

\* the texts of the spans of the clue that is shown
spanTexts ==
  {slice(view.text, s, e + 1) : s \in 0..(Len(view.text) - 1), e \in 0..(Len(view.text) - 1)}

\* C10: under synonym, definition, wordplay indicator and clear the default
\* resolution of every span text is empty, and a segment created or re-tagged
\* under synonym, definition or wordplay indicator has the empty resolution.
EmptyDefaults ==
  /\ \A k \in {"synonym", "definition", "wordplayIndicator", "clear"} :
       \A t \in spanTexts : getDefaultResolution(k, t) = <<>>
  /\ ( /\ Reconciled
       /\ currentMode.behaviorKey \in {"synonym", "definition", "wordplayIndicator"} )
     => \E s \in Members(shown) :
          Exact(s) /\ s.mode = currentMode /\ s.resolution = <<>>

\* a fodder segment of several letters re-tagged as a definition
EmptyDefaultsWitness ==
  /\ Reconciled /\ last.path = "update"
  /\ currentMode.behaviorKey = "definition"
  /\ \E s \in Members(shown) : Exact(s) /\ s.end > s.start /\ s.resolution = <<>>

\* the length of the first k of parts, each followed by the separator
RECURSIVE JoinedLen(_, _)
JoinedLen(parts, k) ==
  IF k = 0 THEN 0 ELSE JoinedLen(parts, k - 1) + Len(parts[k]) + Len(separator)

\* the segments of a list that have a resolution or a classification
Resolved(segments) ==
  {i \in 1..Len(segments) :
     segments[i].resolution # <<>> \/ segments[i].wordplayType # undefined}

\* C11: the summary lists exactly the segments that have a non-empty
\* resolution or a wordplay classification, each once, in ascending order of
\* start whatever the order of the list, and is their entries joined by
\* " → "; [{start:5,resolution:"X"},{start:0,resolution:"Y"}] gives "Y → X".
SummaryListsResolvedByStart ==
  LET segs == view.segments
      out == summarySegments(segs)
      parts == summaryParts(segs)
      n == Len(parts)
  IN /\ summary(<< [start |-> 5, resolution |-> <<"X">>, wordplayType |-> undefined],
                   [start |-> 0, resolution |-> <<"Y">>, wordplayType |-> undefined] >>)
          = <<"Y", " ", "→", " ", "X">>
     /\ Len(out) = Cardinality(Resolved(segs))
     /\ n = Len(out)
     /\ \A i \in Resolved(segs) : \E k \in 1..n : out[k] = segs[i]
     /\ \A k \in 1..(n - 1) : out[k].start < out[k + 1].start
     /\ Len(summary(segs)) = IF n = 0 THEN 0 ELSE JoinedLen(parts, n) - Len(separator)
     /\ \A k \in 1..n :
          /\ SubSeq(summary(segs), JoinedLen(parts, k - 1) + 1,
                    JoinedLen(parts, k - 1) + Len(parts[k])) = parts[k]
          /\ k < n => SubSeq(summary(segs), JoinedLen(parts, k) - Len(separator) + 1,
                             JoinedLen(parts, k)) = <<" ", "→", " ">>

\* three segments, the later created before the earlier in the text, one of
\* them with nothing to list
SummaryListsResolvedByStartWitness ==
  /\ Len(view.segments) = 3
  /\ Cardinality(Resolved(view.segments)) = 2
  /\ \E i, j \in Resolved(view.segments) :
       i < j /\ view.segments[i].start > view.segments[j].start
  /\ Len(summary(view.segments)) > Len(separator)

\* C12: each entry of the summary is the name of the segment's wordplay type
\* when it has one and its resolution otherwise; a segment with both a type
\* and a non-empty resolution is listed once, by the name of its type.
SummaryEntryPrefersWordplay ==
  LET segs == view.segments
      out == summarySegments(segs)
      parts == summaryParts(segs)
  IN /\ Len(parts) = Len(out)
     /\ \A k \in 1..Len(out) :
          /\ out[k].wordplayType \in Members(wordplayTypes)
               => parts[k] = out[k].wordplayType.name
          /\ out[k].wordplayType \notin Members(wordplayTypes)
               => parts[k] = out[k].resolution
     /\ \A s \in Members(segs) :
          (s.wordplayType \in Members(wordplayTypes) /\ s.resolution # <<>>)
            => Cardinality({k \in 1..Len(out) : out[k].id = s.id}) = 1

\* a classified segment re-tagged as fodder has both, and the summary is
\* the name of its type
SummaryEntryPrefersWordplayWitness ==
  /\ Len(view.segments) = 1
  /\ view.segments[1].wordplayType = wordplayTypes[1]
  /\ view.segments[1].resolution # <<>>
  /\ summary(view.segments) = <<"A", "n", "a", "g", "r", "a", "m">>

\* the ids of the segments of a list
Ids(segments) == {segments[i].id : i \in 1..Len(segments)}

\* the characters of text from index start to index end inclusive
Span(text, start, end) == [k \in 1..(end - start + 1) |-> text[start + k]]

\* C13: a resolution edit or a wordplay-type pick for an id that is in the
\* list replaces that one field of that one segment: its other fields and
\* every other segment stay as they were, and the list keeps its length.
FieldEditReplacesOneField ==
  [][ ( /\ last'.op \in {"resolution", "wordplay"}
        /\ last'.id \in Ids(shown) )
      => /\ Len(shown') = Len(shown)
         /\ Cardinality({i \in 1..Len(shown) : shown[i].id = last'.id}) = 1
         /\ \A i \in 1..Len(shown) :
              IF shown[i].id = last'.id
              THEN IF last'.op = "resolution"
                   THEN \E r \in ResolutionInputs :
                          shown'[i] = [shown[i] EXCEPT !.resolution = r]
                   ELSE \E t \in WordplayInputs \cup {undefined} :
                          shown'[i] = [shown[i] EXCEPT !.wordplayType = t]
              ELSE shown'[i] = shown[i] ]_vars

\* a typed resolution on one of two segments, the other one a fodder
\* segment with its derived resolution
FieldEditWitness ==
  /\ last.op = "resolution"
  /\ Len(shown) = 2
  /\ \E s, t \in Members(shown) :
       /\ s.id = last.id /\ s.resolution = <<"X">>
       /\ t.id # last.id /\ t.mode.behaviorKey = "fodder" /\ t.resolution # <<>>

\* C15: a selection under a non-erase mode that overlaps existing segments
\* and has the exact range of none removes each of them and appends a
\* segment with an id no segment had before, no wordplay type, and the
\* active mode's default resolution for the new span text: nothing of the
\* removed segments carries over.
OverlapSelectionIsDestructive ==
  [][ ( /\ Reconciled'
        /\ currentMode.behaviorKey # "clear"
        /\ ~ \E s \in Members(shown) : Matches(s, selection')
        /\ \E s \in Members(shown) : Overlap(s, selection') )
      => LET new == shown'[Len(shown')]
             text == selectedClue(clues, selectedClueId).text
         IN /\ \A s \in Members(shown) :
                 Overlap(s, selection') => s.id \notin Ids(shown')
            /\ Matches(new, selection')
            /\ new.id >= nextId
            /\ \A c \in 1..Len(clues) : new.id \notin Ids(clues[c].segments)
            /\ new.wordplayType = undefined
            /\ new.mode = currentMode
            /\ new.resolution =
                 getDefaultResolution(currentMode.behaviorKey,
                                      Span(text, new.start, new.end)) ]_vars

\* a fodder selection that replaced a segment it overlapped: the one
\* segment left is the new one, with its own derived resolution
OverlapSelectionWitness ==
  /\ Reconciled /\ last.path = "insert"
  /\ last.removed # {}
  /\ currentMode.behaviorKey = "fodder"
  /\ Len(shown) = 1
  /\ shown[1].id = last.id /\ last.id > 1
  /\ shown[1].wordplayType = undefined
  /\ Len(shown[1].resolution) > 1

\* C16: a selection leaves a segment that ends right before it or starts
\* right after it as it was, under every mode; a segment that shares a
\* character index with it is removed, or re-tagged when the mode is not the
\* erase mode and the ranges are equal.
AdjacentRangesDoNotOverlap ==
  [][ Reconciled'
      => \A s \in Members(shown) :
           /\ (s.end = selection'.start - 1 \/ s.start = selection'.end + 1)
                => s \in Members(shown')
           /\ (\E k \in s.start..s.end :
                 selection'.start <= k /\ k <= selection'.end)
                => \/ s.id \notin Ids(shown')
                   \/ /\ currentMode.behaviorKey # "clear"
                      /\ Matches(s, selection')
                      /\ \E t \in Members(shown') :
                           t.id = s.id /\ t.mode = currentMode ]_vars

\* the selection handled last made or erased a range with a segment right
\* before it and a segment right after it, and both are in the list
AdjacentRangesWitness ==
  /\ Reconciled
  /\ \E s, t \in Members(shown) :
       /\ s.end = selection.start - 1
       /\ t.start = selection.end + 1

\* C17: the ids of the segments of a clue are pairwise distinct, and an id
\* stays with the range it was assigned to: a segment of a clue after a step
\* either has the id and range of a segment of that clue before the step, or
\* an id that was never drawn before.
SegmentIdsUnique ==
  [][ \A c \in 1..Len(clues) :
        LET before == clues[c].segments
            after == clues'[c].segments
        IN /\ \A i, j \in 1..Len(after) : i # j => after[i].id # after[j].id
           /\ \A t \in Members(after) :
                \/ \E s \in Members(before) :
                     s.id = t.id /\ s.start = t.start /\ s.end = t.end
                \/ /\ t.id \notin Ids(before)
                   /\ nextId <= t.id /\ t.id < nextId' ]_vars

\* a segment made after another one of the clue was removed, beside one
\* that stayed
SegmentIdsUniqueWitness ==
  /\ Reconciled /\ last.path = "insert"
  /\ last.removed # {}
  /\ Len(shown) = 2
  /\ last.id = 3
  /\ Ids(shown) = {2, 3}

\* C18: the current mode is one of the configured modes, Clear before any
\* event, and while events are handled the mode selector can set any mode
\* from any mode in one step.
ModeRegister ==
  /\ \E i \in 1..Len(modes) : currentMode = modes[i]
  /\ events = 0 => currentMode.name = "Clear"
  /\ events < MaxEvents
       => \A i \in 1..Len(modes) :
            ENABLED (SetCurrentMode(modes[i]) /\ currentMode' = modes[i])

\* the mode set from Fodder to Definition with a segment in the list
ModeRegisterWitness ==
  /\ last.op = "mode"
  /\ currentMode.name = "Definition"
  /\ \E s \in Members(shown) : s.mode.name = "Fodder"

\* C19: a selection or a field edit changes the segment list of the selected
\* clue only: the lists of the other clues, the text and id of every clue
\* and the order of the clues stay, and no id is in the lists of two clues.
EditsTouchSelectedClueOnly ==
  [][ last'.op \in {"select", "resolution", "wordplay"}
      => /\ Len(clues') = Len(clues)
         /\ \A c \in 1..Len(clues) :
              /\ clues'[c].id = clues[c].id
              /\ clues'[c].text = clues[c].text
              /\ clues[c].id # selectedClueId
                   => clues'[c].segments = clues[c].segments
         /\ \A c, d \in 1..Len(clues) :
              c # d => Ids(clues'[c].segments) \cap Ids(clues'[d].segments) = {} ]_vars

\* a selection in the second clue while the first clue has a segment
EditsTouchSelectedClueWitness ==
  /\ Reconciled /\ last.path = "insert"
  /\ selectedClueId = clues[2].id
  /\ clues[1].segments # <<>>
  /\ \E s \in Members(clues[2].segments) : s.id = last.id

\* the clue whose list the handlers of the render write to
rendered == clueIndex(clues, view.clueId)

\* C14: a resolution edit or a wordplay-type pick whose id is not in the
\* current segment list of the clue leaves the contents of that list as
\* they are.
MissingIdEditChangesNothing ==
  [][ ( /\ last'.op \in {"resolution", "wordplay"}
        /\ events' = events + 1
        /\ last'.id \notin Ids(clues[rendered].segments) )
      => clues'[rendered].segments = clues[rendered].segments ]_vars

\* C20: a selection or an edit computes the new list from the list that the
\* handler before it left: every segment of the current list that the event
\* does not touch (the selection does not overlap it, the edit names another
\* id) is in the list after the event.
HandlersSeeLatestSegments ==
  [][ events' = events + 1
      => \A s \in Members(clues[rendered].segments) :
           ( \/ /\ Reconciled'
                /\ ~Overlap(s, selection')
             \/ /\ last'.op \in {"resolution", "wordplay"}
                /\ s.id # last'.id )
           => s \in Members(clues'[rendered].segments) ]_vars

\* all segments of all clues
AllSegments == UNION {Members(clues[c].segments) : c \in 1..Len(clues)}

\* C23: a segment whose mode hides the resolution input has the empty
\* resolution, in every reachable state.
HiddenResolutionIsEmpty ==
  \A s \in AllSegments :
    ~segmentBehaviors(s.mode.behaviorKey).showResolutionInput => s.resolution = <<>>

\* a segment of several characters re-tagged as a wordplay indicator while
\* another segment has a resolution
HiddenResolutionWitness ==
  /\ Reconciled /\ last.path = "update"
  /\ currentMode.behaviorKey = "wordplayIndicator"
  /\ \E s, t \in Members(shown) :
       /\ Exact(s) /\ s.mode = currentMode /\ s.end > s.start /\ s.resolution = <<>>
       /\ t.resolution # <<>>

\* C24 as stated: a segment has a wordplay classification only if the
\* descriptor of its mode has showWordplaySelector.
ClassifiedOnlyUnderPickerMode ==
  \A s \in AllSegments :
    s.wordplayType # undefined
      => segmentBehaviors(s.mode.behaviorKey).showWordplaySelector

\* C25: a segment in fodder mode has the fodder default of its text as its
\* resolution, in every reachable state.
FodderResolutionIsDerived ==
  \A s \in AllSegments :
    s.mode.behaviorKey = "fodder"
      => s.resolution = getDefaultResolution("fodder", s.text)

\* a segment with a blank in its text re-tagged as fodder
FodderResolutionWitness ==
  /\ Reconciled /\ last.path = "update"
  /\ \E s \in Members(shown) :
       /\ Exact(s) /\ s.mode.behaviorKey = "fodder"
       /\ s.text = <<"A", " ", "l">>
       /\ s.resolution = <<"A", "L">>

\* C27: every configured mode has a behaviorKey of the table, the current
\* mode and the mode the handlers closed over are configured modes, and the
\* mode of every segment has a descriptor.
DescriptorLookupDefined ==
  /\ \A i \in 1..Len(modes) : modes[i].behaviorKey \in segmentBehaviorKeys
  /\ currentMode \in Members(modes)
  /\ view.currentMode \in Members(modes)
  /\ \A s \in AllSegments :
       /\ s.mode \in Members(modes)
       /\ s.mode.behaviorKey \in segmentBehaviorKeys

\* segments of two modes while a third mode is current
DescriptorLookupWitness ==
  /\ last.op = "mode"
  /\ \E s, t \in Members(shown) :
       /\ s.mode # t.mode
       /\ s.mode # currentMode /\ t.mode # currentMode

\* C22: a selection of exactly the range of a segment that already has the
\* active mode sets that segment's resolution to the mode's default for its
\* text, whatever was typed into it, and changes nothing else of it.
SameModeReselectionResets ==
  [][ ( /\ Reconciled'
        /\ currentMode.behaviorKey # "clear"
        /\ \E s \in Members(shown) :
             Matches(s, selection') /\ s.mode = currentMode )
      => \A i \in 1..Len(shown) :
           (Matches(shown[i], selection') /\ shown[i].mode = currentMode)
             => shown'[i] =
                  [shown[i] EXCEPT
                     !.resolution =
                       getDefaultResolution(currentMode.behaviorKey, shown[i].text)]
    ]_vars

\* the only segment made so far, of a mode with an editable resolution,
\* selected again three events after it was made and under the mode it was
\* made with (one mode change, one insert, one more event, the re-selection)
SameModeReselectionWitness ==
  /\ Reconciled /\ last.path = "update"
  /\ events = 4 /\ nextId = 2
  /\ currentMode.behaviorKey \in {"synonym", "abbreviation", "definition"}
  /\ \E s \in Members(shown) :
       /\ Exact(s) /\ s.mode = currentMode
       /\ s.resolution = getDefaultResolution(currentMode.behaviorKey, s.text)

\* C26: the same selection made twice in a row, under the same mode and with
\* no event in between, leaves after the second time what the first left:
\* the same segments with the same ids, and no identifier is used up.
ReconciliationIdempotent ==
  [][ ( /\ Reconciled /\ Reconciled'
        /\ events' = events + 1
        /\ last'.start = last.start /\ last'.end = last.end )
      => clues' = clues /\ nextId' = nextId ]_vars

\* a mode change, a selection that makes a segment, the same selection again
ReconciliationIdempotentWitness ==
  /\ Reconciled /\ last.path = "update"
  /\ events = 3 /\ nextId = 2
  /\ \E s \in Members(shown) : Exact(s) /\ s.id = 1 /\ s.mode = currentMode

\* C29: a change of the current mode leaves the segments of every clue as
\* they were.
ModeChangeKeepsSegments ==
  [][ (last'.op = "mode" /\ events' = events + 1) => clues' = clues ]_vars

\* the mode changed last while the selected clue has a segment of another
\* mode with a typed resolution
ModeChangeKeepsSegmentsWitness ==
  /\ last.op = "mode"
  /\ currentMode.behaviorKey = "fodder"
  /\ \E s \in Members(shown) :
       s.mode.behaviorKey = "definition" /\ s.resolution = <<"X">>

\* the ids of the clues
ClueIds == {clues[i].id : i \in 1..Len(clues)}

\* C30: Next from the last clue selects the first, Previous from the first
\* selects the last, Previous right after Next and Next right after Previous
\* select the clue the first of the two clicks started from, and the
\* selected id is always the id of a clue.
NavigationCyclic ==
  [][ /\ selectedClueId' \in ClueIds'
      /\ events' = events + 1
           => /\ (last'.op = "next" /\ selectedClueId = clues[Len(clues)].id)
                   => selectedClueId' = clues[1].id
              /\ (last'.op = "prev" /\ selectedClueId = clues[1].id)
                   => selectedClueId' = clues[Len(clues)].id
              /\ (last.op = "next" /\ last'.op = "prev")
                   => selectedClueId' = last.from
              /\ (last.op = "prev" /\ last'.op = "next")
                   => selectedClueId' = last.from ]_vars

\* Previous clicked on the first of more than two clues
NavigationCyclicWitness ==
  /\ last.op = "prev"
  /\ Len(clues) > 2
  /\ last.from = clues[1].id
  /\ selectedClueId = clues[Len(clues)].id

\* C28: a key press changes the current mode only if the focused element
\* is neither an INPUT nor a TEXTAREA, is inside the container or is the
\* body, and the key in lower case is the key of a mode; any other key press
\* leaves the current mode as it was.
KeyChangesModeOnlyWhenFocused ==
  [][ (last'.op = "key" /\ events' = events + 1)
      => \/ currentMode' = currentMode
         \/ /\ last'.focus.tagName \notin {"INPUT", "TEXTAREA"}
            /\ last'.focus.inContainer \/ last'.focus.isBody
            /\ \E i \in 1..Len(modes) :
                 <<modes[i].key>> = toLowerCase(last'.key) ]_vars

\* the key of a mode that is not current pressed in a resolution input
KeyChangesModeWitness ==
  /\ last.op = "key"
  /\ last.focus = resolutionInput
  /\ last.key = <<"s">>
  /\ currentMode.key = "f"
  /\ \E s \in Members(shown) : s.mode = currentMode

\* C21: in the single-file application a selection that takes the re-tag
\* path replaces the mode and the resolution of a segment whose range is the
\* selection, and leaves every segment of another range as it was.
RetagHitsSelectedRange ==
  [][ (Reconciled' /\ last'.path = "update" /\ events' = events + 1)
      => /\ \E s \in Members(shown) : Matches(s, selection')
         /\ Len(shown') = Len(shown)
         /\ \A i \in 1..Len(shown) :
              ~Matches(shown[i], selection') => shown'[i] = shown[i] ]_vars

\* the same with every difference of value: a segment of another range has
\* another mode or resolution after the step than before
RetagChangesNoOtherRange ==
  [][ (Reconciled' /\ last'.path = "update" /\ events' = events + 1)
      => /\ Len(shown') = Len(shown)
         /\ \A i \in 1..Len(shown) :
              ~Matches(shown[i], selection') => shown'[i] = shown[i] ]_vars

\* C31: a click on a clue of the list, on Next or on Previous leaves the
\* segments of every clue, the one that is left included, and the current
\* mode as they were; only the selected clue id may change.
ClueSelectionKeepsRest ==
  [][ (last'.op \in {"clue", "next", "prev"} /\ events' = events + 1)
      => /\ clues' = clues
         /\ currentMode' = currentMode
         /\ nextId' = nextId ]_vars

\* the second clue selected by a click while the first clue, which is left,
\* has a segment and the mode is not the initial one
ClueSelectionKeepsRestWitness ==
  /\ last.op = "clue"
  /\ selectedClueId = clues[2].id
  /\ clues[1].segments # <<>>
  /\ clues[2].segments = <<>>
  /\ currentMode # modes[1]

\* the displayed segments or text are not those the positions were
\* computed from
PositionsStale == effectDeps # Deps(view)

\* the positions were computed from the displayed segments and text, no two
\* entries are of one segment, and every entry is of a displayed segment
PositionsCurrent ==
  /\ effectDeps = Deps(view)
  /\ \A k, l \in 1..Len(positions) :
       positions[k].segmentId = positions[l].segmentId => k = l
  /\ \A k \in 1..Len(positions) :
       \E s \in Members(view.segments) : s.id = positions[k].segmentId

\* C32: whenever the displayed segments or text have changed, the positions
\* are eventually computed again from them; once they are, there is at most
\* one entry for a displayed segment and none for an id that is not
\* displayed; and a step that sets the positions leaves the segments of every
\* clue, and their order, as they were.
PositionsEventuallyRecomputed ==
  /\ PositionsStale ~> PositionsCurrent
  /\ [](~PositionsStale => PositionsCurrent)
  /\ [][ (positions' # positions \/ effectDeps' # effectDeps)
         => (clues' = clues /\ view' = view) ]_vars

\* the positions computed for the one displayed segment, of the first two
\* characters, after another segment was displayed
PositionsRecomputedWitness ==
  /\ ~PositionsStale
  /\ Len(view.segments) = 1
  /\ view.segments[1].id = 2
  /\ positions = << [segmentId |-> 2, left |-> 2, right |-> 6, center |-> 4,
                     top |-> 0, bottom |-> 2] >>

====
